---- MODULE Spec2Model ----
(***************************************************************************)
(* Model of the SQS listener of zarathustra-aws-ops:                       *)
(*   src/src/listeners/sqs_listener.py  (ZarathustraAWSOpsListener)        *)
(*   src/src/core/workflow_manager.py   (WorkflowManager)                  *)
(* The main thread runs the poll loop of run(); every message of a batch   *)
(* is a task of the ThreadPoolExecutor and runs process_message().         *)
(***************************************************************************)
EXTENDS Integers, Sequences, FiniteSets, TLC

\* ------------------------------------------------------------------ bounds
\* largest SQS_MAX_MESSAGES the configuration is drawn from
MaxBatch == 2
\* largest MAX_WORKERS the configuration is drawn from
MaxWorkers == 2
\* number of messages the remote queue holds at most when the listener starts
MaxQueue == 2
\* longest text given to the chat responder
MaxText == 20
\* the length above which send_response adds blocks (200 in the code)
BlocksThreshold == 2
\* the max_length send_response truncates a block text to (2900 in the code)
TruncateLength == 3

\* ------------------------------------------------------- message bodies
\* Values of a JSON field that is read as text: the key is missing, it is
\* null, it is the empty string, or it is a non-empty string.
TextVals == {"absent", "null", "empty", "text"}

\* Values of the 'metadata' field: null, or an object (a missing key reads as
\* {}) that carries slack_response_url and/or slack_event_type.
MetaVals == {"null", "none", "url", "event", "url_event"}

\* Shapes of Message['Body']: not JSON at all; a JSON number/boolean/null;
\* a JSON array or string without / with the word 'request' in it; an object.
BodyKinds == {"invalid", "scalar", "array_plain", "array_keys", "object"}

ObjectBodies ==
    [kind : {"object"}, request : TextVals, prompt : TextVals,
     source : {"slack", "generic"}, metadata : MetaVals,
     callback_url : {"absent", "set"}]

NonObjectBodies ==
    [kind : BodyKinds \ {"object"}, request : {"absent"}, prompt : {"absent"},
     source : {"generic"}, metadata : {"none"}, callback_url : {"absent"}]

Bodies == ObjectBodies \cup NonObjectBodies

ObjectBody(req, pr, src, meta, cb) ==
    [kind |-> "object", request |-> req, prompt |-> pr, source |-> src,
     metadata |-> meta, callback_url |-> cb]

\* Bodies for the runs in which several messages are in flight at once: one
\* that raises before Execute, one that is routed to the chat sink and one
\* that is routed to the webhook sink.
SampleBodies ==
    { ObjectBody("empty", "absent", "slack", "none", "set"),
      ObjectBody("text", "absent", "slack", "url", "set"),
      ObjectBody("absent", "text", "generic", "none", "set") }

\* ------------------------------------------------------------- variables
VARIABLES
    cfg,                 \* the environment: required keys, batch and pool size
    pc,                  \* position of the main thread
    shutdown_requested,  \* self.shutdown_requested
    queue,               \* messages the remote queue has not delivered yet
    messages,            \* the batch of the current iteration, with its tasks
    submitted,           \* number of messages of the batch given to the pool
    collected,           \* futures that as_completed has yielded
    exit_code,           \* -1 while the process runs
    recv,                \* how the receive of the current iteration ended
    text,                \* SlackResponder: the text argument of a call
    max_length,          \* SlackResponder: the max_length argument of a call
    out,                 \* SlackResponder: what _truncate_for_slack returned last
    truncations,         \* SlackResponder: number of _truncate_for_slack calls
    posted               \* SlackResponder: the payloads given to the HTTP client

\* the variables of the chat responder taken alone
chat == <<text, max_length, out, truncations, posted>>

vars == <<cfg, pc, shutdown_requested, queue, messages, submitted, collected,
          exit_code, recv, chat>>

\* ------------------------------------------------- chat responder, pure
\* A text is a sequence of characters. The texts of the runs are made of the
\* letter a and hold at most one line break, at any place.
TextOf(n, p) == [k \in 1..n |-> IF k = p THEN "\n" ELSE "a"]

Texts == UNION {{TextOf(n, p) : p \in 0..n} : n \in 0..MaxText}

\* "\n\n_...truncated_"
Marker ==
    <<"\n", "\n", "_", ".", ".", ".", "t", "r", "u", "n", "c", "a", "t", "e", "d", "_">>

\* Defect: the length test is strict the other way round (off by one).
truncate_for_slack_off_by_one(t, L) ==
    IF Len(t) < L THEN t ELSE SubSeq(t, 1, L) \o Marker

\* _truncate_for_slack(text, max_length)
truncate_for_slack(t, L) ==
    IF Len(t) <= L THEN t ELSE SubSeq(t, 1, L) \o Marker

\* _format_message: the emoji (one character) and a blank before the text
format_message(t, success) ==
    <<IF success THEN "white_check_mark" ELSE "x", " ">> \o t

HasLineBreak(t) == \E k \in DOMAIN t : t[k] = "\n"

\* Defect: the text of the second block is not truncated.
Blocks_untruncated(t, success) ==
    << [type |-> "section",
        text |-> [type |-> "mrkdwn",
                  text |-> <<IF success THEN ":white_check_mark:" ELSE ":x:",
                             " ", "*Result*">>]],
       [type |-> "section", text |-> [type |-> "mrkdwn", text |-> t]] >>

\* The two section blocks of _create_blocks: a fixed heading and the text.
Blocks(t, success) ==
    << [type |-> "section",
        text |-> [type |-> "mrkdwn",
                  text |-> <<IF success THEN ":white_check_mark:" ELSE ":x:",
                             " ", "*Result*">>]],
       [type |-> "section",
        text |-> [type |-> "mrkdwn",
                  text |-> truncate_for_slack(t, TruncateLength)]] >>

\* Defect: only the length decides.
create_blocks_length_only(t, success) ==
    IF Len(t) > BlocksThreshold THEN Blocks(t, success) ELSE <<>>

\* _create_blocks: None (here the empty sequence) for a simple message
create_blocks(t, success) ==
    IF Len(t) > BlocksThreshold \/ HasLineBreak(t) THEN Blocks(t, success) ELSE <<>>

\* the payload send_response gives to the HTTP client
send_response(t, success, response_type) ==
    LET payload == [response_type |-> response_type, replace_original |-> TRUE,
                    text |-> format_message(t, success)]
        blocks == create_blocks(t, success)
    IN IF blocks # <<>>
       THEN [k \in DOMAIN payload \cup {"blocks"} |->
                IF k = "blocks" THEN blocks ELSE payload[k]]
       ELSE payload

\* send_error: send_response with success=False, ephemeral by default
send_error(t, response_type) == send_response(t, FALSE, response_type)

\* ------------------------------------------------------ pure helpers
\* message_body.get('request') or message_body.get('prompt')
RequestText(body) ==
    IF body.request = "text" THEN "text"
    ELSE IF body.prompt \in {"text", "empty"} THEN body.prompt
    ELSE "None"

\* Defect: the presence check is dropped.
validate_message_skipped(body) == TRUE

\* validate_message: 'request' in body or 'prompt' in body
validate_message(body) ==
    body.request # "absent" \/ body.prompt # "absent"

MetaHasUrl(body) == body.metadata \in {"url", "url_event"}
MetaHasEvent(body) == body.metadata \in {"event", "url_event"}

\* is_slack = source == 'slack' or metadata.get('slack_event_type')
IsSlack(body) == body.source = "slack" \/ MetaHasEvent(body)

\* Defect: the fallback to callback_url is dropped.
SlackResponseUrl_metadata_only(body) ==
    IF MetaHasUrl(body) THEN "slack_response_url" ELSE "none"

\* slack_response_url = metadata.get('slack_response_url') or
\*                      message_body.get('callback_url'): which URL it is
SlackResponseUrl(body) ==
    IF MetaHasUrl(body) THEN "slack_response_url"
    ELSE IF body.callback_url = "set" THEN "callback_url"
    ELSE "none"

\* Defect: JSONDecodeError is caught by the general except clause.
ParsePath_one_except(body) ==
    CASE body.kind \in {"invalid", "scalar", "array_keys"} -> "exception"
      [] body.kind = "array_plain" -> "rejected"
      [] OTHER ->
           IF ~validate_message(body) THEN "rejected"
           ELSE IF RequestText(body) = "None" THEN "exception"
           ELSE IF body.metadata = "null" THEN "exception"
           ELSE "normal"

\* How far the try block of process_message gets before Execute:
\*   "json_error"  json.loads raises JSONDecodeError
\*   "rejected"    validate_message returns False
\*   "exception"   another exception is raised (TypeError, AttributeError)
\*   "normal"      process_aws_operation is called
ParsePath(body) ==
    CASE body.kind = "invalid" -> "json_error"
      [] body.kind = "scalar" -> "exception"
      [] body.kind = "array_plain" -> "rejected"
      [] body.kind = "array_keys" -> "exception"
      [] OTHER ->
           IF ~validate_message(body) THEN "rejected"
           ELSE IF RequestText(body) = "None" THEN "exception"
           ELSE IF body.metadata = "null" THEN "exception"
           ELSE "normal"

\* Defect: the callback_url branch is tested first.
RouteTarget_webhook_first(body) ==
    IF body.callback_url = "set" THEN "webhook"
    ELSE IF IsSlack(body) /\ SlackResponseUrl(body) # "none" THEN "chat"
    ELSE "none"

\* Defect: the second branch is an else, not an elif on callback_url.
RouteTarget_else(body) ==
    IF IsSlack(body) /\ SlackResponseUrl(body) # "none" THEN "chat"
    ELSE "webhook"

\* The sink the if/elif of the success branch selects (lines 141-144).
RouteTarget(body) ==
    IF IsSlack(body) /\ SlackResponseUrl(body) # "none" THEN "chat"
    ELSE IF body.callback_url = "set" THEN "webhook"
    ELSE "none"

\* Defect: a failure is only ever reported to Slack.
FailureRouteTarget_chat_only(body) ==
    IF IsSlack(body) /\ SlackResponseUrl(body) # "none" THEN "chat" ELSE "none"

\* The sink the if/elif of the failure branch selects (lines 156-159).
FailureRouteTarget(body) ==
    IF IsSlack(body) /\ SlackResponseUrl(body) # "none" THEN "chat"
    ELSE IF body.callback_url = "set" THEN "webhook"
    ELSE "none"

\* The URL a sink is given: slack_response_url for the chat sink,
\* message_body['callback_url'] for the webhook sink.
TargetUrl(body, target) ==
    CASE target = "chat" -> SlackResponseUrl(body)
      [] target = "webhook" -> "callback_url"
      [] OTHER -> "none"

\* The URL the selected sink posts to.
RouteUrl(body) == TargetUrl(body, RouteTarget(body))

\* The except-Exception handler: the body is parsed again and an error is
\* sent to Slack when a URL is found and source == 'slack'; any failure of
\* this attempt is swallowed.
HandlerTarget(body) ==
    IF body.kind = "object" /\ body.metadata # "null"
       /\ SlackResponseUrl(body) # "none" /\ body.source = "slack"
    THEN "chat" ELSE "none"

NoResult == [success |-> FALSE, error |-> "pending"]

\* A message as Receive returns it, before its task has started.
NewTask(m) ==
    [MessageId |-> m.MessageId, ReceiptHandle |-> m.ReceiptHandle,
     Body |-> m.Body, pc |-> "queued", path |-> "none", log |-> <<>>,
     agent_called |-> FALSE, wf_result |-> NoResult,
     delete_failed |-> FALSE, sink_failed |-> FALSE, sink_url |-> "none",
     result |-> NoResult, agent_response |-> "absent", posts |-> <<>>]

\* tasks of the pool that a worker thread is running
Running == {i \in 1..Len(messages) : messages[i].pc \notin {"queued", "done"}}

\* ------------------------------------------------------------- initial
TypeOK ==
    /\ pc \in {"start", "loop", "receive", "receiving", "sleep", "submit", "wait",
               "shutdown_executor", "close_http", "close_slack", "close_wm",
               "stopped", "exited"}
    /\ shutdown_requested \in BOOLEAN
    /\ submitted \in 0..Len(messages)
    /\ collected \subseteq 1..Len(messages)
    /\ exit_code \in {-1, 0, 1}
    /\ recv \in {"none", "batch", "empty", "client_error", "exception"}

Configs ==
    [queue_url : BOOLEAN, openai_api_key : BOOLEAN,
     max_messages : 1..MaxBatch, max_workers : 1..MaxWorkers]

QueueOf(bodies) ==
    [i \in 1..Len(bodies) |->
        [MessageId |-> i, ReceiptHandle |-> i, Body |-> bodies[i]]]

SeqsUpTo(S, n) == UNION {[1..k -> S] : k \in 0..n}

InitRest ==
    /\ pc = "start"
    /\ shutdown_requested = FALSE
    /\ messages = <<>>
    /\ submitted = 0
    /\ collected = {}
    /\ exit_code = -1
    /\ recv = "none"

\* the chat responder taken alone is not exercised
ChatIdle ==
    /\ text = <<>>
    /\ max_length = 0
    /\ out = <<>>
    /\ truncations = 0
    /\ posted = <<>>

\* Several messages in flight: every configuration, queues of sample bodies.
Init ==
    /\ cfg \in Configs
    /\ queue \in {QueueOf(b) : b \in SeqsUpTo(SampleBodies, MaxQueue)}
    /\ InitRest
    /\ ChatIdle

\* One message at a time (SQS_MAX_MESSAGES=1, MAX_WORKERS=1), any body.
InitMsg ==
    /\ cfg \in {c \in Configs : c.max_messages = 1 /\ c.max_workers = 1}
    /\ queue \in {QueueOf(<<b>>) : b \in Bodies}
    /\ InitRest
    /\ ChatIdle

\* The chat responder taken alone: one text, any max_length up to MaxText.
InitChat ==
    /\ cfg = [queue_url |-> TRUE, openai_api_key |-> TRUE,
              max_messages |-> 1, max_workers |-> 1]
    /\ queue = <<>>
    /\ InitRest
    /\ text \in Texts
    /\ max_length \in 0..MaxText
    /\ out = text
    /\ truncations = 0
    /\ posted = <<>>

\* ---------------------------------------------------------- main thread
\* Defect: the required keys are not validated.
Construct_unchecked ==
    /\ pc = "start"
    /\ pc' = "loop"
    /\ UNCHANGED <<chat, cfg, shutdown_requested, queue, messages, submitted, collected,
                   exit_code, recv>>

\* __init__: missing SQS_QUEUE_URL or OPENAI_API_KEY raises ValueError, which
\* main() turns into sys.exit(1); otherwise run() is entered.
Construct ==
    /\ pc = "start"
    /\ IF cfg.queue_url /\ cfg.openai_api_key
       THEN pc' = "loop" /\ exit_code' = exit_code
       ELSE pc' = "exited" /\ exit_code' = 1
    /\ UNCHANGED <<chat, cfg, shutdown_requested, queue, messages, submitted, collected,
                   recv>>

\* Defect: the handler releases the resources itself.
SignalHandler_closes ==
    /\ pc \notin {"start", "exited"}
    /\ shutdown_requested' = TRUE
    /\ pc' = "close_http"
    /\ UNCHANGED <<chat, cfg, queue, messages, submitted, collected, exit_code, recv>>

\* Defect: a second signal takes the request back.
SignalHandler_toggle ==
    /\ pc \notin {"start", "exited"}
    /\ shutdown_requested' = ~shutdown_requested
    /\ UNCHANGED <<chat, cfg, pc, queue, messages, submitted, collected, exit_code, recv>>

\* _signal_handler, installed by __init__ for SIGINT and SIGTERM; it runs in
\* the main thread, between any two of its steps.
SignalHandler ==
    /\ pc \notin {"start", "exited"}
    /\ shutdown_requested' = TRUE
    /\ UNCHANGED <<chat, cfg, pc, queue, messages, submitted, collected, exit_code, recv>>

\* Defect: the loop is a while True.
LoopCheck_while_true ==
    /\ pc = "loop"
    /\ pc' = "receive"
    /\ UNCHANGED <<chat, cfg, shutdown_requested, queue, messages, submitted, collected,
                   exit_code, recv>>

\* while not self.shutdown_requested
LoopCheck ==
    /\ pc = "loop"
    /\ pc' = IF shutdown_requested THEN "shutdown_executor" ELSE "receive"
    /\ UNCHANGED <<chat, cfg, shutdown_requested, queue, messages, submitted, collected,
                   exit_code, recv>>

\* messages = self.receive_messages(): sqs.receive_message is called
IssueReceive ==
    /\ pc = "receive"
    /\ pc' = "receiving"
    /\ UNCHANGED <<chat, cfg, shutdown_requested, queue, messages, submitted, collected,
                   exit_code, recv>>

\* receive_messages returns n >= 1 messages (at most SQS_MAX_MESSAGES)
ReceiveBatch ==
    /\ pc = "receiving"
    /\ \E n \in 1..cfg.max_messages :
         /\ n <= Len(queue)
         /\ messages' = [i \in 1..n |-> NewTask(queue[i])]
         /\ queue' = SubSeq(queue, n + 1, Len(queue))
    /\ submitted' = 0
    /\ collected' = {}
    /\ recv' = "batch"
    /\ pc' = "submit"
    /\ UNCHANGED <<chat, cfg, shutdown_requested, exit_code>>

\* receive_messages returns [] because the long poll timed out: nothing is
\* dispatched and the loop sleeps poll_interval.
\* Defect: an empty batch is polled again without the loop condition.
ReceiveNothing_polls_again ==
    /\ pc = "receiving"
    /\ recv' = "none"
    /\ pc' = "receive"
    /\ UNCHANGED <<chat, cfg, shutdown_requested, queue, messages, submitted, collected,
                   exit_code>>

\* Defect: an empty batch goes back to the loop condition at once.
ReceiveNothing_no_wait ==
    /\ pc = "receiving"
    /\ recv' = "empty"
    /\ pc' = "loop"
    /\ UNCHANGED <<chat, cfg, shutdown_requested, queue, messages, submitted, collected,
                   exit_code>>

ReceiveNothing ==
    /\ pc = "receiving"
    /\ recv' = "empty"
    /\ pc' = "sleep"
    /\ UNCHANGED <<chat, cfg, shutdown_requested, queue, messages, submitted, collected,
                   exit_code>>

\* Defect: a receive error ends the poll loop.
ReceiveError_breaks ==
    /\ pc = "receiving"
    /\ \E kind \in {"client_error", "exception"} : recv' = kind
    /\ pc' = "shutdown_executor"
    /\ UNCHANGED <<chat, cfg, shutdown_requested, queue, messages, submitted, collected,
                   exit_code>>

\* Defect: a receive error is not caught and ends the process.
ReceiveError_fatal ==
    /\ pc = "receiving"
    /\ \E kind \in {"client_error", "exception"} : recv' = kind
    /\ pc' = "exited"
    /\ exit_code' = 1
    /\ UNCHANGED <<chat, cfg, shutdown_requested, queue, messages, submitted, collected>>

\* sqs.receive_message fails: a ClientError is caught by receive_messages,
\* which returns [] (lines 267-269, then the sleep of line 284); any other
\* exception is caught by run() (lines 307-309), which sleeps as well.
ReceiveError ==
    /\ pc = "receiving"
    /\ \E kind \in {"client_error", "exception"} : recv' = kind
    /\ pc' = "sleep"
    /\ UNCHANGED <<chat, cfg, shutdown_requested, queue, messages, submitted, collected,
                   exit_code>>

\* time.sleep(self.poll_interval) returns and the iteration ends
Sleep ==
    /\ pc = "sleep"
    /\ pc' = "loop"
    /\ recv' = "none"
    /\ UNCHANGED <<chat, cfg, shutdown_requested, queue, messages, submitted, collected,
                   exit_code>>

\* Variant: the flag is tested again before a message is given to the pool.
Submit_unless_shutdown ==
    /\ pc = "submit"
    /\ submitted < Len(messages)
    /\ IF shutdown_requested
       THEN submitted' = submitted /\ pc' = "wait"
       ELSE /\ submitted' = submitted + 1
            /\ pc' = IF submitted + 1 = Len(messages) THEN "wait" ELSE "submit"
    /\ UNCHANGED <<chat, cfg, shutdown_requested, queue, messages, collected, exit_code,
                   recv>>

\* for message in messages: self.executor.submit(self.process_message, message)
Submit ==
    /\ pc = "submit"
    /\ submitted < Len(messages)
    /\ submitted' = submitted + 1
    /\ pc' = IF submitted + 1 = Len(messages) THEN "wait" ELSE "submit"
    /\ UNCHANGED <<chat, cfg, shutdown_requested, queue, messages, collected, exit_code,
                   recv>>

\* Defect: the main thread goes on after the first future has completed.
Collect_first(i) ==
    /\ pc = "wait"
    /\ i \in 1..Len(messages)
    /\ i \notin collected
    /\ messages[i].pc = "done"
    /\ collected' = collected \cup {i}
    /\ pc' = "loop"
    /\ recv' = "none"
    /\ UNCHANGED <<chat, cfg, shutdown_requested, queue, messages, submitted, exit_code>>

\* Defect: a message whose result is a failure is given to the pool again.
Collect_retry(i) ==
    /\ pc = "wait"
    /\ i \in 1..Len(messages)
    /\ i \notin collected
    /\ messages[i].pc = "done"
    /\ IF messages[i].result.success
       THEN /\ collected' = collected \cup {i}
            /\ messages' = messages
       ELSE /\ collected' = collected
            /\ messages' = [messages EXCEPT ![i].pc = "queued"]
    /\ pc' = IF collected' = 1..Len(messages) THEN "loop" ELSE "wait"
    /\ recv' = IF collected' = 1..Len(messages) THEN "none" ELSE recv
    /\ UNCHANGED <<chat, cfg, shutdown_requested, queue, submitted, exit_code>>

\* for future in as_completed(futures): future.result(); after the last
\* future the iteration ends
Collect(i) ==
    /\ pc = "wait"
    /\ i \in 1..Len(messages)
    /\ i \notin collected
    /\ messages[i].pc = "done"
    /\ collected' = collected \cup {i}
    /\ pc' = IF collected' = 1..Len(messages) THEN "loop" ELSE "wait"
    /\ recv' = IF collected' = 1..Len(messages) THEN "none" ELSE recv
    /\ UNCHANGED <<chat, cfg, shutdown_requested, queue, messages, submitted, exit_code>>

\* Cleanup after the loop: executor.shutdown(wait=True), http_client.close(),
\* slack_responder.close(), workflow_manager.close(); then main() returns.
Cleanup ==
    /\ \/ /\ pc = "shutdown_executor"
          /\ Running = {}
          /\ \A i \in 1..submitted : messages[i].pc = "done"
          /\ pc' = "close_http"
       \/ pc = "close_http" /\ pc' = "close_slack"
       \/ pc = "close_slack" /\ pc' = "close_wm"
       \/ pc = "close_wm" /\ pc' = "stopped"
    /\ UNCHANGED <<chat, cfg, shutdown_requested, queue, messages, submitted, collected,
                   exit_code, recv>>

Exit ==
    /\ pc = "stopped"
    /\ pc' = "exited"
    /\ exit_code' = 0
    /\ UNCHANGED <<chat, cfg, shutdown_requested, queue, messages, submitted, collected,
                   recv>>

\* ------------------------------------------------------- worker threads
SetTask(i, t) == messages' = [messages EXCEPT ![i] = t]

\* Defect: a thread is started for every task, whatever max_workers is.
PoolUnbounded == TRUE

\* A ThreadPoolExecutor(max_workers) runs a task only on one of its
\* max_workers threads: a queued task waits while all of them are busy.
PoolHasFreeWorker == Cardinality(Running) < cfg.max_workers

\* A worker thread takes the oldest queued task and runs process_message up
\* to the call of process_aws_operation (json.loads, validate_message, the
\* reads of the request text, source, metadata and URLs).
Start(i) ==
    /\ i \in 1..submitted
    /\ messages[i].pc = "queued"
    /\ \A j \in 1..(i - 1) : messages[j].pc # "queued"
    /\ PoolHasFreeWorker
    /\ LET t == messages[i]
           path == ParsePath(t.Body)
       IN SetTask(i, [t EXCEPT
              !.path = path,
              !.pc = CASE path = "normal" -> "executing"
                       [] path = "exception" -> "handler"
                       [] OTHER -> "delete",
              !.log = IF path = "normal" THEN Append(@, "execute_start") ELSE @])
    /\ UNCHANGED <<chat, cfg, pc, shutdown_requested, queue, submitted, collected,
                   exit_code, recv>>

\* Defect: an exception of the agent is not caught.
ExecuteReturn_raises(i) ==
    /\ i \in 1..Len(messages)
    /\ messages[i].pc = "executing"
    /\ LET t == messages[i] IN
       \E agent_ok \in BOOLEAN :
          SetTask(i, [t EXCEPT
              !.pc = IF RequestText(t.Body) = "text" /\ ~agent_ok
                     THEN "handler" ELSE "delete",
              !.log = Append(@, "execute_end"),
              !.agent_called = (RequestText(t.Body) = "text"),
              !.agent_response =
                  IF RequestText(t.Body) = "text" /\ agent_ok THEN "output" ELSE "absent",
              !.wf_result =
                  IF RequestText(t.Body) # "text"
                  THEN [success |-> FALSE, error |-> "missing_field"]
                  ELSE IF agent_ok THEN [success |-> TRUE, error |-> "none"]
                  ELSE NoResult])
    /\ UNCHANGED <<chat, cfg, pc, shutdown_requested, queue, submitted, collected,
                   exit_code, recv>>

\* process_aws_operation returns: a request text that is empty is refused
\* without calling the agent; otherwise the agent succeeds, and its output
\* is result['result']['response'], or fails (its exceptions are returned as
\* failures, which carry no 'result').
ExecuteReturn(i) ==
    /\ i \in 1..Len(messages)
    /\ messages[i].pc = "executing"
    /\ LET t == messages[i] IN
       \E agent_ok \in BOOLEAN :
          SetTask(i, [t EXCEPT
              !.pc = "delete",
              !.log = Append(@, "execute_end"),
              !.agent_called = (RequestText(t.Body) = "text"),
              !.agent_response =
                  IF RequestText(t.Body) = "text" /\ agent_ok THEN "output" ELSE "absent",
              !.wf_result =
                  IF RequestText(t.Body) # "text"
                  THEN [success |-> FALSE, error |-> "missing_field"]
                  ELSE IF agent_ok THEN [success |-> TRUE, error |-> "none"]
                  ELSE [success |-> FALSE, error |-> "agent_error"]])
    /\ UNCHANGED <<chat, cfg, pc, shutdown_requested, queue, submitted, collected,
                   exit_code, recv>>

\* The processing result process_message returns on the paths that end
\* right after _delete_message.
EarlyResult(path) ==
    IF path = "json_error" THEN [success |-> FALSE, error |-> "invalid_json"]
    ELSE [success |-> FALSE, error |-> "invalid_format"]

\* Defect: a failed delete_message is tried again.
Delete_retry(i) ==
    /\ i \in 1..Len(messages)
    /\ messages[i].pc = "delete"
    /\ LET t == messages[i] IN
       \E ok \in BOOLEAN :
          SetTask(i, [t EXCEPT
              !.log = Append(@, "delete"),
              !.delete_failed = ~ok,
              !.pc = IF ~ok THEN "delete"
                     ELSE IF t.path = "normal" THEN "route" ELSE "done",
              !.result = IF t.path = "normal" \/ ~ok THEN @ ELSE EarlyResult(t.path)])
    /\ UNCHANGED <<chat, cfg, pc, shutdown_requested, queue, submitted, collected,
                   exit_code, recv>>

\* Defect: the exception of sqs.delete_message is not caught.
Delete_raises(i) ==
    /\ i \in 1..Len(messages)
    /\ messages[i].pc = "delete"
    /\ LET t == messages[i] IN
       \E ok \in BOOLEAN :
          SetTask(i, [t EXCEPT
              !.log = Append(@, "delete"),
              !.delete_failed = ~ok,
              !.pc = IF ~ok THEN "handler"
                     ELSE IF t.path = "normal" THEN "route" ELSE "done",
              !.result = IF t.path = "normal" \/ ~ok THEN @ ELSE EarlyResult(t.path)])
    /\ UNCHANGED <<chat, cfg, pc, shutdown_requested, queue, submitted, collected,
                   exit_code, recv>>

\* _delete_message: sqs.delete_message is called; its failure is logged only.
Delete(i) ==
    /\ i \in 1..Len(messages)
    /\ messages[i].pc = "delete"
    /\ LET t == messages[i] IN
       \E ok \in BOOLEAN :
          SetTask(i, [t EXCEPT
              !.log = Append(@, "delete"),
              !.delete_failed = ~ok,
              !.pc = IF t.path = "normal" THEN "route" ELSE "done",
              !.result = IF t.path = "normal" THEN @ ELSE EarlyResult(t.path)])
    /\ UNCHANGED <<chat, cfg, pc, shutdown_requested, queue, submitted, collected,
                   exit_code, recv>>

\* Defect: a failed post is sent a second time.
Sent_retry(t, target, url, ok) ==
    IF target = "none" THEN t
    ELSE LET event == IF target = "chat" THEN "chat_sink" ELSE "webhook_sink" IN
         [t EXCEPT
             !.log = IF ok THEN Append(@, event) ELSE Append(Append(@, event), event),
             !.sink_url = url,
             !.sink_failed = ~ok]

\* One call of a sink by task t: the chat sink (SlackResponder.send_response
\* via _send_slack_response / _send_slack_error) or the webhook sink
\* (_send_callback); a failing post is logged only.
Sent(t, target, url, ok) ==
    IF target = "none" THEN t
    ELSE [t EXCEPT
             !.log = Append(@, IF target = "chat" THEN "chat_sink" ELSE "webhook_sink"),
             !.sink_url = url,
             !.sink_failed = ~ok]

\* _send_slack_response: the agent's output (one token here) is sent as a
\* success, in the channel.
send_slack_response(t) ==
    send_response(<<t.agent_response>>, TRUE, "in_channel")

\* _send_slack_error: the error text under a heading line, sent as an error
\* to the user alone.
send_slack_error(error_message) ==
    send_error(<<"*Error processing request:*", "\n", error_message>>, "ephemeral")

\* Defect: the error is sent with the call of the success branch.
ChatPayload_always_response(t) ==
    send_response(<<t.wf_result.error>>, TRUE, "in_channel")

\* what the success branch (line 142) or the failure branch (line 157) posts
\* to the chat sink
ChatPayload(t) ==
    IF t.wf_result.success THEN send_slack_response(t)
    ELSE send_slack_error(t.wf_result.error)

\* Defect: the failure description is sent as 'response'.
send_callback_error_as_response(t) ==
    [message_id |-> t.MessageId,
     success |-> t.wf_result.success,
     response |-> IF t.wf_result.success THEN t.agent_response ELSE t.wf_result.error,
     error |-> "null"]

\* _send_callback: the JSON body; result.get('result', {}).get('response', '')
\* is '' when the result has no 'result', result.get('error') is null when
\* it has no 'error'.
send_callback(t) ==
    [message_id |-> t.MessageId,
     success |-> t.wf_result.success,
     response |-> IF t.agent_response = "absent" THEN "" ELSE t.agent_response,
     error |-> IF t.wf_result.error = "none" THEN "null" ELSE t.wf_result.error]

\* the posts of task t, with the one made to the sink 'target' (if any)
Posts(t, target, body) ==
    IF target = "none" THEN t.posts
    ELSE Append(t.posts, [sink |-> target, body |-> body])

\* The if/elif after _delete_message, of the success or of the failure
\* branch, and the return of the processing result.
Route(i) ==
    /\ i \in 1..Len(messages)
    /\ messages[i].pc = "route"
    /\ LET t == messages[i]
           target == IF t.wf_result.success THEN RouteTarget(t.Body)
                     ELSE FailureRouteTarget(t.Body)
       IN
       \E ok \in BOOLEAN :
          SetTask(i, [Sent(t, target, TargetUrl(t.Body, target), ok) EXCEPT
              !.pc = "done",
              !.posts = Posts(t, target, IF target = "chat" THEN ChatPayload(t)
                                         ELSE send_callback(t)),
              !.result = t.wf_result])
    /\ UNCHANGED <<chat, cfg, pc, shutdown_requested, queue, submitted, collected,
                   exit_code, recv>>

\* except Exception: the best-effort Slack error, then the failure result.
Handler(i) ==
    /\ i \in 1..Len(messages)
    /\ messages[i].pc = "handler"
    /\ LET t == messages[i] IN
       \E ok \in BOOLEAN :
          SetTask(i, [Sent(t, HandlerTarget(t.Body), SlackResponseUrl(t.Body), ok) EXCEPT
              !.pc = "done",
              !.posts = Posts(t, HandlerTarget(t.Body), send_slack_error("exception")),
              !.result = [success |-> FALSE, error |-> "exception"]])
    /\ UNCHANGED <<chat, cfg, pc, shutdown_requested, queue, submitted, collected,
                   exit_code, recv>>

\* ------------------------------------------------------- specification
Next ==
    \/ Construct
    \/ SignalHandler
    \/ LoopCheck
    \/ IssueReceive
    \/ ReceiveBatch
    \/ ReceiveNothing
    \/ ReceiveError
    \/ Sleep
    \/ Submit
    \/ \E i \in 1..MaxBatch : Start(i)
    \/ \E i \in 1..MaxBatch : ExecuteReturn(i)
    \/ \E i \in 1..MaxBatch : Delete(i)
    \/ \E i \in 1..MaxBatch : Route(i)
    \/ \E i \in 1..MaxBatch : Handler(i)
    \/ \E i \in 1..MaxBatch : Collect(i)
    \/ Cleanup
    \/ Exit

Spec == Init /\ [][Next]_vars

\* ------------------------------------------ chat responder taken alone
listener == <<cfg, pc, shutdown_requested, queue, messages, submitted, collected,
              exit_code, recv>>

\* _truncate_for_slack is called on what it returned last (at first on text)
TruncateCall ==
    /\ truncations < 2
    /\ out' = truncate_for_slack(out, max_length)
    /\ truncations' = truncations + 1
    /\ UNCHANGED <<listener, text, max_length, posted>>

\* send_response(response_url, text, success, response_type)
SendResponseCall ==
    /\ posted = <<>>
    /\ \E success \in BOOLEAN, response_type \in {"in_channel", "ephemeral"} :
          posted' = <<send_response(text, success, response_type)>>
    /\ UNCHANGED <<listener, text, max_length, out, truncations>>

\* send_error(response_url, error_message) with the default response_type
SendErrorCall ==
    /\ posted = <<>>
    /\ posted' = <<send_error(text, "ephemeral")>>
    /\ UNCHANGED <<listener, text, max_length, out, truncations>>

NextChat ==
    \/ TruncateCall
    \/ SendResponseCall
    \/ SendErrorCall

SpecChat == InitChat /\ [][NextChat]_vars

SpecMsg == InitMsg /\ [][Next]_vars

\* ------------------------------------------------------------ properties
\* Scheduling: the main thread takes its next step when it has one (a
\* Receive, a sleep and a close return), and so does every worker thread of
\* the pool (Execute, Delete and the sink posts return). No signal and no
\* failure of a Receive is ever required to happen.
MainThread ==
    \/ Construct
    \/ LoopCheck
    \/ IssueReceive
    \/ ReceiveBatch
    \/ ReceiveNothing
    \/ Sleep
    \/ Submit
    \/ \E i \in 1..MaxBatch : Collect(i)
    \/ Cleanup
    \/ Exit

Worker(i) ==
    \/ Start(i)
    \/ ExecuteReturn(i)
    \/ Delete(i)
    \/ Route(i)
    \/ Handler(i)

Fairness ==
    /\ WF_vars(MainThread)
    /\ \A i \in 1..MaxBatch : WF_vars(Worker(i))

FairSpec == Init /\ [][Next]_vars /\ Fairness

\* Bodies for the runs that follow a shutdown to its end: one that raises
\* before Execute and one that is executed and answered.
DrainBodies ==
    { ObjectBody("empty", "absent", "slack", "none", "set"),
      ObjectBody("text", "absent", "slack", "url", "set") }

InitDrain ==
    /\ cfg \in Configs
    /\ queue \in {QueueOf(b) : b \in SeqsUpTo(DrainBodies, MaxQueue)}
    /\ InitRest
    /\ ChatIdle

FairSpecDrain == InitDrain /\ [][Next]_vars /\ Fairness

Tasks == 1..Len(messages)

Count(log, e) == Cardinality({k \in DOMAIN log : log[k] = e})

Sinks == {"chat_sink", "webhook_sink"}

SinkCalls(log) == Count(log, "chat_sink") + Count(log, "webhook_sink")

\* C1: every message whose processing has finished, on whatever path, has
\* had exactly one Delete call issued for it.
C1_DeletedExactlyOnce ==
    \A i \in Tasks :
        messages[i].pc = "done" => Count(messages[i].log, "delete") = 1

\* C2: the number of Execute calls that have started and not returned is at
\* most the pool size MAX_WORKERS.
C2_InFlightBounded ==
    Cardinality({i \in Tasks : messages[i].pc = "executing"}) <= cfg.max_workers

\* a batch of two on a pool of one: one Execute in flight, one task waiting
C2_Witness ==
    /\ cfg.max_workers = 1
    /\ Len(messages) = 2
    /\ submitted = 2
    /\ messages[1].pc = "executing"
    /\ messages[2].pc = "queued"

\* C3: whenever a sink is invoked for a message, Delete was issued for it
\* before, and Execute had finished for it before that Delete.
C3_DeleteBeforeSink ==
    \A i \in Tasks :
        LET log == messages[i].log IN
        \A k \in DOMAIN log :
            log[k] \in Sinks =>
                \E d \in 1..(k - 1) :
                    /\ log[d] = "delete"
                    /\ \E e \in 1..(d - 1) : log[e] = "execute_end"

\* C4: a request with source 'slack' and a chat response URL never reaches
\* the webhook sink, whatever the Result and whether or not callback_url is set.
C4_ChatNeverWebhook ==
    \A i \in Tasks :
        LET b == messages[i].Body IN
        (b.kind = "object" /\ b.source = "slack"
            /\ b.metadata \in {"url", "url_event"})
        => Count(messages[i].log, "webhook_sink") = 0

\* a failed Slack request with both URLs has been answered on the chat sink
C4_Witness ==
    \E i \in Tasks :
        LET t == messages[i] IN
        /\ t.pc = "done"
        /\ t.Body.source = "slack"
        /\ t.Body.metadata = "url"
        /\ t.Body.callback_url = "set"
        /\ ~t.wf_result.success
        /\ Count(t.log, "chat_sink") = 1

\* C5: at most one sink invocation per message, never both sinks, and no
\* sink at all for a request without chat response URL and callback URL.
C5_AtMostOneSink ==
    \A i \in Tasks :
        LET t == messages[i] IN
        /\ SinkCalls(t.log) <= 1
        /\ (t.Body.metadata \notin {"url", "url_event"}
              /\ t.Body.callback_url = "absent")
           => SinkCalls(t.log) = 0

\* a request without any URL has been executed and nothing was delivered
C5_Witness ==
    \E i \in Tasks :
        LET t == messages[i] IN
        /\ t.pc = "done"
        /\ t.path = "normal"
        /\ t.Body.source = "slack"
        /\ t.Body.metadata = "event"
        /\ t.Body.callback_url = "absent"
        /\ SinkCalls(t.log) = 0

\* C6 as stated: a completed request to which rule 1 (source 'slack' and a
\* chat response URL) does not apply and whose callback_url is set is
\* delivered through the webhook sink to callback_url.
C6_WebhookUnlessRule1 ==
    \A i \in Tasks :
        LET t == messages[i] IN
        (t.pc = "done" /\ t.path = "normal"
            /\ ~(t.Body.source = "slack" /\ t.Body.metadata \in {"url", "url_event"})
            /\ t.Body.callback_url = "set")
        => (Count(t.log, "webhook_sink") = 1 /\ t.sink_url = "callback_url")

\* C6 as amended: a completed request whose callback_url is set is
\* delivered through the webhook sink to callback_url when it is no Slack
\* request (source is not 'slack' and metadata has no slack_event_type), and
\* through the chat sink when it is one: to the metadata's
\* slack_response_url, and to callback_url when there is none.
C6_WebhookUnlessSlack ==
    \A i \in Tasks :
        LET t == messages[i]
            slack == t.Body.source = "slack"
                        \/ t.Body.metadata \in {"event", "url_event"}
        IN
        (t.pc = "done" /\ t.path = "normal" /\ t.Body.callback_url = "set")
        => IF slack
           THEN /\ Count(t.log, "chat_sink") = 1
                /\ Count(t.log, "webhook_sink") = 0
                /\ t.sink_url = IF t.Body.metadata \in {"url", "url_event"}
                                THEN "slack_response_url" ELSE "callback_url"
           ELSE /\ Count(t.log, "webhook_sink") = 1
                /\ Count(t.log, "chat_sink") = 0
                /\ t.sink_url = "callback_url"

\* a Slack request with a callback URL only was answered on the chat sink
C6_Witness ==
    \E i \in Tasks :
        LET t == messages[i] IN
        /\ t.pc = "done"
        /\ t.path = "normal"
        /\ t.Body.source = "slack"
        /\ t.Body.metadata = "none"
        /\ t.Body.callback_url = "set"
        /\ t.log = <<"execute_start", "execute_end", "delete", "chat_sink">>
        /\ t.sink_url = "callback_url"

C8_EmptyTextIsPoison ==
    \A i \in Tasks :
        LET t == messages[i] IN
        (t.pc = "done" /\ t.Body.kind = "object"
            /\ (t.Body.request # "absent" \/ t.Body.prompt # "absent")
            /\ t.Body.request # "text" /\ t.Body.prompt # "text")
        => /\ Count(t.log, "delete") = 1
           /\ Count(t.log, "execute_start") = 0
           /\ SinkCalls(t.log) = 0

\* C9: a message whose body is not JSON never reaches Execute or a sink,
\* and when its processing has finished it was deleted once and its result
\* is a failure that names the JSON decode error.
C9_InvalidJsonDeleted ==
    \A i \in Tasks :
        LET t == messages[i] IN
        t.Body.kind = "invalid"
        => /\ Count(t.log, "execute_start") = 0
           /\ SinkCalls(t.log) = 0
           /\ t.pc = "done" =>
                 /\ Count(t.log, "delete") = 1
                 /\ ~t.result.success
                 /\ t.result.error = "invalid_json"

\* a message that is not JSON has been processed and deleted
C9_Witness ==
    \E i \in Tasks :
        /\ messages[i].pc = "done"
        /\ messages[i].Body.kind = "invalid"
        /\ messages[i].log = <<"delete">>

\* C10: a message whose processing raised an unexpected exception ends as a
\* failure, is deleted, and its failure is sent to the sink the routing
\* rules select for the request (when the body gives the routing fields).
C10_ExceptionDeletedAndRouted ==
    \A i \in Tasks :
        LET t == messages[i] IN
        (t.pc = "done" /\ t.path = "exception")
        => /\ ~t.result.success
           /\ Count(t.log, "delete") = 1
           /\ (t.Body.kind = "object" /\ t.Body.metadata # "null")
              => /\ RouteTarget(t.Body) = "chat" => Count(t.log, "chat_sink") = 1
                 /\ RouteTarget(t.Body) = "webhook" => Count(t.log, "webhook_sink") = 1

\* the sink a task has invoked, going by its log
ObservedSink(t) ==
    IF Count(t.log, "chat_sink") > 0 THEN "chat"
    ELSE IF Count(t.log, "webhook_sink") > 0 THEN "webhook"
    ELSE "none"

\* C11: the Result of a completed request, failure or success, goes to the
\* sink (and URL) that the success branch selects from the request's source
\* and URLs: the target does not depend on Result.success.
C11_FailureRoutedLikeSuccess ==
    \A i \in Tasks :
        LET t == messages[i] IN
        (t.pc = "done" /\ t.path = "normal")
        => /\ ObservedSink(t) = RouteTarget(t.Body)
           /\ t.sink_url = RouteUrl(t.Body)

\* a failure of the agent has been posted to the webhook sink
C11_Witness ==
    \E i \in Tasks :
        LET t == messages[i] IN
        /\ t.pc = "done"
        /\ t.wf_result = [success |-> FALSE, error |-> "agent_error"]
        /\ t.Body.source = "generic"
        /\ t.log = <<"execute_start", "execute_end", "delete", "webhook_sink">>

\* C12: Execute is invoked at most once for a delivery, whatever fails.
C12_ExecuteAtMostOnce ==
    \A i \in Tasks :
        /\ Count(messages[i].log, "execute_start") <= 1
        /\ Count(messages[i].log, "execute_end") <= 1

\* Execute, Delete and the sink all failed for a delivery, its future was
\* collected, and the loop has gone on to its next Receive
C12_Witness ==
    \E i \in collected :
        LET t == messages[i] IN
        /\ pc = "receiving"
        /\ ~t.wf_result.success
        /\ t.delete_failed
        /\ t.sink_failed
        /\ Count(t.log, "execute_start") = 1

\* the main thread has left the poll loop
AfterLoop == {"shutdown_executor", "close_http", "close_slack", "close_wm",
              "stopped", "exited"}

\* the pool and the clients are being or have been released by run()
Released ==
    \/ pc \in {"close_http", "close_slack", "close_wm", "stopped"}
    \/ pc = "exited" /\ exit_code = 0

AllTasksDone ==
    /\ submitted = Len(messages)
    /\ \A i \in Tasks : messages[i].pc = "done"

\* C13 as stated: once the flag is set no Receive call is issued any more,
\* the pool and the clients are released only when every slot has finished,
\* and the process exits with code 0.
C13_NoReceiveAfterSignal ==
    /\ [](Released => AllTasksDone)
    /\ []((pc = "exited" /\ shutdown_requested) => exit_code = 0)
    /\ [][~(shutdown_requested /\ pc = "receive" /\ pc' = "receiving")]_vars

\* C13 as amended: with the flag set the loop check never passes again, so
\* the only Receive call issued after the signal is that of an iteration
\* whose loop check had passed before it; the pool and the clients are
\* released only when every slot has finished, and the process exits with 0.
C13_NoLoopCheckPassesAfterSignal ==
    /\ [](Released => AllTasksDone)
    /\ []((pc = "exited" /\ shutdown_requested) => exit_code = 0)
    /\ [][(shutdown_requested /\ pc' = "receive") => pc = "receive"]_vars

\* the signal has arrived while two slots are executing
C13_Witness ==
    /\ shutdown_requested
    /\ pc = "wait"
    /\ Cardinality({i \in Tasks : messages[i].pc = "executing"}) = 2

\* C14 as stated: after the signal no message is given to the pool.
C14_NoDispatchAfterSignal ==
    [][shutdown_requested => submitted' # submitted + 1]_vars

NothingDispatchedAfterLoop ==
    pc \in AfterLoop
    => (pc' \in AfterLoop /\ submitted' = submitted /\ messages' = messages)

\* C14 as amended: the flag is read by the loop check only. Every message a
\* Receive has returned is given to the pool, whether or not the flag is
\* set; with the flag set the loop check leaves the loop, and after the loop
\* has been left nothing is dispatched.
C14_DispatchStopsAtLoopCheck ==
    /\ [](pc # "submit" => submitted = Len(messages))
    /\ [][(shutdown_requested /\ pc = "loop" /\ pc' # pc) => pc' = "shutdown_executor"]_vars
    /\ [][NothingDispatchedAfterLoop]_vars

\* the flag is set and a received message has not been given to the pool yet
C14_Witness ==
    /\ shutdown_requested
    /\ pc = "submit"
    /\ submitted = 0
    /\ Len(messages) = 2

\* C15: when the HTTP clients, the chat responder and the workflow manager
\* are closed, every dispatched message has run process_message to its end.
C15_InFlightWorkCompletes ==
    Released => AllTasksDone

\* resources are being closed after a signal; the batch was answered
C15_Witness ==
    /\ shutdown_requested
    /\ pc = "close_slack"
    /\ Len(messages) = 2
    /\ \A i \in Tasks : SinkCalls(messages[i].log) = 1

\* the state of the listener's lifecycle; a construction that fails leaves
\* no listener ("Failed")
Lifecycle ==
    CASE pc = "start" -> "Starting"
      [] pc \in {"loop", "receive", "receiving", "sleep", "submit", "wait"} -> "Running"
      [] pc \in {"shutdown_executor", "close_http", "close_slack", "close_wm"} -> "Draining"
      [] pc = "exited" /\ exit_code = 1 -> "Failed"
      [] OTHER -> "Stopped"

LifecycleStep ==
    \/ Lifecycle' = Lifecycle
    \/ <<Lifecycle, Lifecycle'>> \in
          {<<"Starting", "Running">>, <<"Running", "Draining">>,
           <<"Draining", "Stopped">>, <<"Starting", "Failed">>}

\* C16: the lifecycle moves only along Starting -> Running -> Draining ->
\* Stopped, and Running is left only to Draining and only with the flag set.
C16_LifecycleLinear ==
    /\ [][LifecycleStep]_vars
    /\ [][(Lifecycle = "Running" /\ Lifecycle' # "Running") => shutdown_requested]_vars

\* the listener has stopped after it had received a batch
C16_Witness ==
    /\ pc = "stopped"
    /\ shutdown_requested
    /\ Len(messages) > 0

\* C17: the shutdown flag starts false and, once true, stays true.
C17_FlagMonotonic ==
    /\ shutdown_requested = FALSE
    /\ [][shutdown_requested => shutdown_requested']_vars

\* the flag is still set at the end of the cleanup
C17_Witness ==
    /\ shutdown_requested
    /\ pc = "close_wm"

ReceiveFailed == recv \in {"client_error", "exception"}

AfterReceiveFailure ==
    ReceiveFailed
    => /\ pc' \in {"sleep", "loop"}
       /\ messages' = messages
       /\ submitted' = submitted
       /\ queue' = queue

\* C18: after a failing Receive nothing is dispatched and the queue keeps
\* its messages, the loop sleeps and returns to its loop check, which issues
\* the next Receive unless the flag is set; the process does not end.
C18_ReceiveErrorIsEmptyBatch ==
    /\ [](ReceiveFailed => (pc = "sleep" /\ exit_code = -1 /\ AllTasksDone))
    /\ [][AfterReceiveFailure]_vars
    /\ [][(pc = "loop" /\ ~shutdown_requested /\ pc' # pc) => pc' = "receive"]_vars

\* a Receive has failed with a client error while the queue holds messages
C18_Witness ==
    /\ recv = "client_error"
    /\ pc = "sleep"
    /\ Len(queue) > 0

\* C19: a failing Delete raises nothing into the slot, is not repeated, and
\* leaves the routing and the processing result as they are when it succeeds.
C19_DeleteFailureNonFatal ==
    \A i \in Tasks :
        LET t == messages[i] IN
        t.delete_failed
        => /\ t.pc \in {"route", "done"}
           /\ Count(t.log, "delete") = 1
           /\ t.pc = "done" =>
                IF t.path = "normal"
                THEN /\ t.result = t.wf_result
                     /\ ObservedSink(t) = RouteTarget(t.Body)
                ELSE /\ t.result = EarlyResult(t.path)
                     /\ ObservedSink(t) = "none"

\* a successful request whose Delete failed was answered on the chat sink
C19_Witness ==
    \E i \in Tasks :
        LET t == messages[i] IN
        /\ t.pc = "done"
        /\ t.delete_failed
        /\ t.result.success
        /\ t.log = <<"execute_start", "execute_end", "delete", "chat_sink">>

SinkFailureStepIsLocal ==
    \A i \in Tasks :
        (/\ i \in DOMAIN messages'
         /\ messages'[i].MessageId = messages[i].MessageId
         /\ messages'[i].sink_failed
         /\ ~messages[i].sink_failed)
        => /\ \A j \in Tasks \ {i} : messages'[j] = messages[j]
           /\ UNCHANGED <<pc, shutdown_requested, queue, submitted, collected,
                          exit_code, recv>>

\* C20: a failed sink post is not repeated, leaves the success flag of the
\* processing result as Execute gave it, causes no further Execute or Delete,
\* and the step in which it fails changes no other slot and not the poll loop.
C20_SinkFailureIsolated ==
    /\ [](\A i \in Tasks :
            LET t == messages[i] IN
            t.sink_failed
            => /\ t.pc = "done"
               /\ SinkCalls(t.log) = 1
               /\ Count(t.log, "execute_start") <= 1
               /\ Count(t.log, "delete") <= 1
               /\ t.path = "normal" => t.result.success = t.wf_result.success)
    /\ [][SinkFailureStepIsLocal]_vars

\* a sink post has failed for one message while another one is executing
C20_Witness ==
    \E i, j \in Tasks :
        /\ messages[i].sink_failed
        /\ messages[i].wf_result.success
        /\ messages[j].pc = "executing"

ConfigComplete == cfg.queue_url /\ cfg.openai_api_key

\* C21: with SQS_QUEUE_URL or OPENAI_API_KEY missing the main thread never
\* leaves the constructor except to exit with code 1, so the poll loop is
\* never entered and nothing is received; an exit after run() has code 0.
C21_MissingConfigIsFatal ==
    /\ ~ConfigComplete =>
          /\ pc \in {"start", "exited"}
          /\ pc = "exited" => exit_code = 1
          /\ messages = <<>> /\ recv = "none" /\ ~shutdown_requested
    /\ (ConfigComplete /\ pc = "exited") => exit_code = 0

\* the process has exited with code 1 because the queue URL is missing
C21_Witness ==
    /\ ~cfg.queue_url
    /\ cfg.openai_api_key
    /\ pc = "exited"
    /\ exit_code = 1

\* message id is in the current batch, which is larger than the pool
InOversizedBatch(id) ==
    /\ Len(messages) > cfg.max_workers
    /\ \E i \in Tasks : messages[i].MessageId = id

DeleteIssued(id) ==
    \E i \in Tasks :
        /\ messages[i].MessageId = id
        /\ Count(messages[i].log, "delete") >= 1

StartsOnlyOnFreeWorker ==
    \A i \in Tasks :
        (/\ messages[i].pc = "queued"
         /\ i \in DOMAIN messages'
         /\ messages'[i].MessageId = messages[i].MessageId
         /\ messages'[i].pc # "queued")
        => Cardinality(Running) < cfg.max_workers

\* C22: in a batch larger than the pool a message leaves the pool's queue
\* only when fewer than max_workers tasks are running, and every message of
\* the batch eventually has its Delete issued.
C22_OversizedBatchAllDeleted ==
    /\ [][StartsOnlyOnFreeWorker]_vars
    /\ \A id \in 1..MaxQueue : InOversizedBatch(id) ~> DeleteIssued(id)

\* the payloads the chat responder has posted
Posted == {posted[k] : k \in DOMAIN posted}

TruncatedAsDocumented ==
    truncations >= 1 =>
       IF Len(text) <= max_length
       THEN out = text
       ELSE /\ Len(out) = max_length + Len(Marker)
            /\ \A k \in 1..max_length : out[k] = text[k]
            /\ \A k \in 1..Len(Marker) : out[max_length + k] = Marker[k]

SecondTruncationChangesNothing ==
    (truncations >= 1 /\ truncations' = truncations + 1) => out' = out

\* C23: _truncate_for_slack returns a text of at most max_length characters
\* unchanged and otherwise the first max_length characters followed by the
\* marker; applied to its own result it returns that result.
C23_TruncationIdempotent ==
    /\ []TruncatedAsDocumented
    /\ [][SecondTruncationChangesNothing]_vars

\* a text with a line break, longer than max_length, was truncated twice
C23_Witness ==
    /\ truncations = 2
    /\ max_length > 0
    /\ Len(text) > max_length
    /\ HasLineBreak(text)

\* C24: the posted payload has the key 'blocks' exactly when the text is
\* longer than the threshold or holds a line break; its 'text' field carries
\* the text in both cases.
C24_BlocksIffLongOrMultiline ==
    \A p \in Posted :
        /\ ("blocks" \in DOMAIN p) <=> (Len(text) > BlocksThreshold \/ HasLineBreak(text))
        /\ SubSeq(p.text, 3, Len(p.text)) = text

\* a text not longer than the threshold was posted with blocks
C24_Witness ==
    \E p \in Posted :
        /\ "blocks" \in DOMAIN p
        /\ Len(text) > 0
        /\ Len(text) <= BlocksThreshold

\* C25 as stated: neither the 'text' field (after its two-character prefix)
\* nor a block text is longer than the maximum length plus the marker.
C25_PayloadTextBounded ==
    \A p \in Posted :
        /\ Len(p.text) - 2 <= TruncateLength + Len(Marker)
        /\ "blocks" \in DOMAIN p =>
              \A b \in DOMAIN p.blocks :
                  Len(p.blocks[b].text.text) <= TruncateLength + Len(Marker)

\* C25 as amended: only the text of the second block is truncated, to the
\* maximum length plus the marker; the 'text' field carries the prefix and
\* the whole text, whatever its length.
C25_OnlyBlockTextBounded ==
    \A p \in Posted :
        /\ Len(p.text) = Len(text) + 2
        /\ \A k \in DOMAIN text : p.text[k + 2] = text[k]
        /\ "blocks" \in DOMAIN p =>
              LET body == p.blocks[2].text.text IN
              /\ Len(p.blocks) = 2
              /\ Len(body) <= TruncateLength + Len(Marker)
              /\ \A k \in 1..TruncateLength : k <= Len(text) => body[k] = text[k]
              /\ Len(text) > TruncateLength =>
                    SubSeq(body, TruncateLength + 1, Len(body)) = Marker

\* a text longer than the maximum length plus the marker was posted
C25_Witness ==
    \E p \in Posted :
        /\ "blocks" \in DOMAIN p
        /\ Len(text) > TruncateLength + Len(Marker)
        /\ Len(p.text) > TruncateLength + Len(Marker) + 2

\* the bodies task t has posted to the chat sink / to the webhook sink
ChatPosts(t) == {t.posts[k].body : k \in {j \in DOMAIN t.posts : t.posts[j].sink = "chat"}}

WebhookPosts(t) ==
    {t.posts[k].body : k \in {j \in DOMAIN t.posts : t.posts[j].sink = "webhook"}}

SuccessStyled(p) ==
    /\ p.text[1] = "white_check_mark"
    /\ "blocks" \in DOMAIN p => p.blocks[1].text.text[1] = ":white_check_mark:"

ErrorStyled(p) ==
    /\ p.text[1] = "x"
    /\ "blocks" \in DOMAIN p => p.blocks[1].text.text[1] = ":x:"

\* C26: what a task posts to the chat sink is success-styled and in_channel
\* when Execute succeeded, and error-styled and ephemeral when Execute
\* failed or process_message raised.
C26_ChatStyleFollowsResult ==
    \A i \in Tasks :
        LET t == messages[i] IN
        \A p \in ChatPosts(t) :
            IF t.path = "normal" /\ t.wf_result.success
            THEN SuccessStyled(p) /\ p.response_type = "in_channel"
            ELSE ErrorStyled(p) /\ p.response_type = "ephemeral"

\* a failed Execute was answered on the chat sink
C26_Witness ==
    \E i \in Tasks :
        /\ messages[i].path = "normal"
        /\ messages[i].wf_result.error = "agent_error"
        /\ ChatPosts(messages[i]) # {}

\* C27: the body posted to the webhook sink has the message's id, the
\* success flag of the result of Execute, the agent's output or '' as
\* 'response', and the failure description or null as 'error'.
C27_WebhookBody ==
    \A i \in Tasks :
        LET t == messages[i] IN
        \A p \in WebhookPosts(t) :
            /\ p.message_id = t.MessageId
            /\ p.success = t.wf_result.success
            /\ IF t.wf_result.success
               THEN p.response = "output" /\ p.error = "null"
               ELSE p.response = "" /\ p.error \in {"missing_field", "agent_error"}
                                    /\ p.error = t.wf_result.error

\* an empty request text was refused and reported to the webhook sink
C27_Witness ==
    \E i \in Tasks :
        /\ messages[i].wf_result.error = "missing_field"
        /\ WebhookPosts(messages[i]) # {}

\* C28: a task that has called process_aws_operation never ends in the
\* exception handler; the call returns a success, or a failure with its
\* description, and the agent is called only with a non-empty request text.
C28_ProcessorNeverRaises ==
    \A i \in Tasks :
        LET t == messages[i] IN
        Count(t.log, "execute_start") >= 1
        => /\ t.pc \in {"executing", "delete", "route", "done"}
           /\ Count(t.log, "execute_end") >= 1 =>
                /\ t.wf_result.success \/ t.wf_result.error \in {"missing_field", "agent_error"}
                /\ t.wf_result.success => t.wf_result.error = "none"
                /\ RequestText(t.Body) # "text" =>
                      (~t.agent_called /\ t.wf_result = [success |-> FALSE,
                                                         error |-> "missing_field"])
                /\ t.agent_called => RequestText(t.Body) = "text"

\* process_aws_operation was called with an empty text and has returned
C28_Witness ==
    \E i \in Tasks :
        /\ RequestText(messages[i].Body) = "empty"
        /\ Count(messages[i].log, "execute_end") = 1
        /\ messages[i].pc = "done"

AfterEmptyBatch ==
    recv = "empty"
    => /\ pc' \in {"sleep", "loop"}
       /\ messages' = messages
       /\ submitted' = submitted

ReceiveIssuedFromLoopCheck ==
    (pc' = "receiving" /\ pc # "receiving") => (pc = "receive" /\ recv = "none")

\* C29: after an empty batch the main thread is in its sleep, dispatches
\* nothing and goes from the sleep to the loop condition, from where alone a
\* Receive is issued; while and after a non-empty batch is processed it
\* never sleeps before the next Receive has returned.
C29_SleepOnlyAfterEmptyBatch ==
    /\ [](recv = "empty" => pc = "sleep")
    /\ [](recv = "batch" => pc \in {"submit", "wait"})
    /\ [](pc = "sleep" => recv \in {"empty", "client_error", "exception"})
    /\ [][AfterEmptyBatch]_vars
    /\ [][ReceiveIssuedFromLoopCheck]_vars

\* an empty batch was received after a batch had been processed
C29_Witness ==
    /\ recv = "empty"
    /\ pc = "sleep"
    /\ Len(messages) > 0
    /\ ~shutdown_requested

\* C30: no task issues more than one Delete; the exception path issues none,
\* the rejection and the JSON-error path issue theirs as their only call,
\* and the normal path issues its one after Execute has returned.
C30_AtMostOneDelete ==
    \A i \in Tasks :
        LET t == messages[i] IN
        /\ Count(t.log, "delete") <= 1
        /\ t.path = "exception" => Count(t.log, "delete") = 0
        /\ (t.path \notin {"none", "normal", "exception"} /\ t.log # <<>>)
              => t.log = <<"delete">>
        /\ (t.path = "normal" /\ Count(t.log, "delete") = 1)
              => SubSeq(t.log, 1, 3) = <<"execute_start", "execute_end", "delete">>

\* a message that is not JSON had its one Delete, which failed
C30_Witness ==
    \E i \in Tasks :
        /\ messages[i].pc = "done"
        /\ messages[i].path = "json_error"
        /\ messages[i].delete_failed
        /\ messages[i].log = <<"delete">>

\* messages given to the pool whose process_message has not returned
InFlight == {i \in 1..submitted : messages[i].pc # "done"}

\* C31: while the main thread is at the loop condition, in a Receive or in
\* its sleep, every message of the batch has finished; the messages in
\* flight are messages of the one current batch, which holds at most
\* SQS_MAX_MESSAGES messages.
C31_BatchBarrier ==
    /\ pc \in {"loop", "receive", "receiving", "sleep"} => (AllTasksDone /\ InFlight = {})
    /\ Len(messages) <= cfg.max_messages
    /\ Cardinality(InFlight) <= cfg.max_messages
    /\ \A i, j \in Tasks : messages[i].MessageId = messages[j].MessageId => i = j

\* a message is in flight while the queue holds the next one
C31_Witness ==
    /\ pc = "wait"
    /\ Len(queue) > 0
    /\ InFlight # {}
    /\ \E i \in InFlight : messages[i].pc = "executing"

Stopped == pc \in {"stopped", "exited"}

\* C32: once the flag is set, the main thread eventually is past the
\* shutdown of the pool and the closing of all clients.
C32_ShutdownReachesStopped ==
    shutdown_requested ~> (Stopped /\ AllTasksDone)

\* the signal has arrived while the main thread sleeps after an empty batch
C32_Witness ==
    /\ shutdown_requested
    /\ pc = "sleep"
    /\ recv = "empty"

====
